---- MODULE Spec2Model ----
(***************************************************************************)
(* Model of the element store of the map editor: EditorState               *)
(* (src/editor_state.py) over MapElement (src/elements.py).                *)
(*                                                                         *)
(* Python values are represented as follows.                               *)
(*   None            the string "None"                                     *)
(*   dict            a sequence of entries in insertion order (the order   *)
(*                   Python dicts iterate in); an element dict is a        *)
(*                   sequence of MapElement records, keyed by their id     *)
(*   QColor          a record [r, g, b, a]                                 *)
(*   "#rrggbb"       the sequence of its six hexadecimal digits            *)
(*   float contrast  an integer number of hundredths (0.75 is 75)          *)
(*   Chinese labels  ASCII transliterations (strings must be ASCII here)   *)
(*   an exception    the field raised = TRUE of an operator's result       *)
(*                                                                         *)
(* The variable window holds the fields of the main window (EzMapWindow,   *)
(* src/ui_main_window.py) that its handlers read and write: the placement  *)
(* mode, the canvas items, the hierarchy tree and the current file.        *)
(***************************************************************************)
EXTENDS Integers, Sequences, FiniteSets, TLC

VARIABLES elements, selected_id, base_color, contrast, used, last, window

vars == <<elements, selected_id, base_color, contrast, used, last, window>>

(***************************************************************************)
(* Bounds and input sets                                                   *)
(***************************************************************************)
\* the largest number of elements the store is filled with
MaxElems == 2

None == "None"

\* the ids elements are given: hex strings as uuid4().hex gives, of 6 digits
\* for the 32 of the program, so that a prefix of 4 is a proper prefix
Ids == {"e1a0f3", "e2b1c4", "e3c2d5"}

\* values passed as parent_id
ParentInputs == Ids \cup {None}

\* the element types the operations are called with
TypesUsed == {"VILLAGE_SMALL", "MINE_COAL"}

\* the settings keys update_setting is called with: a default key and a new one
SettingKeyInputs == {"beizhu", "tianqi"}

\* the explicit name given to elements
NameInput == "n1"

(***************************************************************************)
(* elements.py                                                             *)
(***************************************************************************)
\* ElementType: member name -> value (the display label)
ElementType ==
  [ HOUSE_SMALL |-> "xiaowu", HOUSE_LARGE |-> "dawu", HOUSE_FANCY |-> "haozhai",
    VILLAGE_SMALL |-> "xiaocunzhuang", VILLAGE_MEDIUM |-> "zhongcunzhuang",
    VILLAGE_LARGE |-> "dacunzhuang",
    TOWN_SMALL |-> "xiaozhen", TOWN_MEDIUM |-> "zhongzhen", TOWN_LARGE |-> "dazhen",
    CITY_SMALL |-> "xiaocheng", CITY_MEDIUM |-> "zhongcheng", CITY_LARGE |-> "dacheng",
    COUNTRY_SMALL |-> "xiaoguo", COUNTRY_MEDIUM |-> "zhongguo",
    COUNTRY_LARGE |-> "daguo",
    RIVER_SMALL |-> "xiaoxi", RIVER_MEDIUM |-> "zhonghe", RIVER_LARGE |-> "dahe",
    MOUNTAIN_SMALL |-> "xiaoshan", MOUNTAIN_MEDIUM |-> "zhongshan",
    MOUNTAIN_LARGE |-> "dashan",
    MINE_COAL |-> "meikuang", MINE_IRON |-> "tiekuang", MINE_GOLD |-> "jinkuang",
    MINE_GEM |-> "baoshikuang",
    CUSTOM |-> "zidingyi" ]

\* dict.update: the entries of b added to a, b winning on common keys
DictUpdate(a, b) ==
  [k \in DOMAIN a \cup DOMAIN b |-> IF k \in DOMAIN b THEN b[k] ELSE a[k]]

\* defaults in which a mine's ore type is left empty
default_settings_unlabelled_mine(t) ==
  LET base == [ miaoshu |-> "", zhenying_guishu |-> "", renkou_guimo |-> "",
                ziyuan |-> "", beizhu |-> "", tupian_lujing |-> "",
                tupian_kuandu |-> "64", tupian_gaodu |-> "64" ]
      s1 == IF t \in {"RIVER_SMALL", "RIVER_MEDIUM", "RIVER_LARGE",
                      "MOUNTAIN_SMALL", "MOUNTAIN_MEDIUM", "MOUNTAIN_LARGE"}
            THEN DictUpdate(base, [qiangdu_guimo |-> "zhong", teshu_xiaoguo |-> ""])
            ELSE base
      s2 == IF t \in {"MINE_COAL", "MINE_IRON", "MINE_GOLD", "MINE_GEM"}
            THEN DictUpdate(s1, [kuangzhong |-> "", chanchu |-> ""])
            ELSE s1
  IN  IF t = "CUSTOM"
      THEN DictUpdate(s2, [zidingyi_leixing |-> "", tubiao_daxiao |-> "32",
                           xianshi_mingcheng |-> "shi"])
      ELSE s2

default_settings_for(t) ==
  LET base == [ miaoshu |-> "", zhenying_guishu |-> "", renkou_guimo |-> "",
                ziyuan |-> "", beizhu |-> "", tupian_lujing |-> "",
                tupian_kuandu |-> "64", tupian_gaodu |-> "64" ]
      s1 == IF t \in {"RIVER_SMALL", "RIVER_MEDIUM", "RIVER_LARGE",
                      "MOUNTAIN_SMALL", "MOUNTAIN_MEDIUM", "MOUNTAIN_LARGE"}
            THEN DictUpdate(base, [qiangdu_guimo |-> "zhong", teshu_xiaoguo |-> ""])
            ELSE base
      s2 == IF t \in {"MINE_COAL", "MINE_IRON", "MINE_GOLD", "MINE_GEM"}
            THEN DictUpdate(s1, [kuangzhong |-> ElementType[t], chanchu |-> ""])
            ELSE s1
  IN  IF t = "CUSTOM"
      THEN DictUpdate(s2, [zidingyi_leixing |-> "", tubiao_daxiao |-> "32",
                           xianshi_mingcheng |-> "shi"])
      ELSE s2

\* the MapElement dataclass
MapElement(id, type, name, parent_id, pos, polyline, settings) ==
  [ id |-> id, type |-> type, name |-> name, parent_id |-> parent_id,
    pos |-> pos, polyline |-> polyline, settings |-> settings ]

\* the slice s[:n]
Prefix(s, n) == SubSeq(s, 1, IF Len(s) < n THEN Len(s) ELSE n)

\* a create that names the element after its whole id
MapElement_create_whole_id(eid, t, name, parent_id, pos) ==
  MapElement(eid, t,
             IF name = None \/ name = "" THEN ElementType[t] \o "-" \o eid ELSE name,
             parent_id, pos, <<>>, default_settings_for(t))

\* MapElement.create, with eid the value new_id() returned
MapElement_create(eid, t, name, parent_id, pos) ==
  MapElement(eid, t,
             IF name = None \/ name = ""
             THEN ElementType[t] \o "-" \o Prefix(eid, 4) ELSE name,
             parent_id, pos, <<>>, default_settings_for(t))

(***************************************************************************)
(* Python dict of elements, in insertion order                             *)
(***************************************************************************)
Keys(els) == {els[i].id : i \in DOMAIN els}

\* els[k], for k a key of els
Lookup(els, k) == els[CHOOSE i \in DOMAIN els : els[i].id = k]

\* els[e.id] = e : a present key keeps its place, a new one goes last
DictSet(els, e) ==
  IF e.id \in Keys(els)
  THEN [i \in DOMAIN els |-> IF els[i].id = e.id THEN e ELSE els[i]]
  ELSE Append(els, e)

\* del els[k]
DictDel(els, k) == SelectSeq(els, LAMBDA e : e.id # k)

(***************************************************************************)
(* QColor and the documents of the persisted format                        *)
(***************************************************************************)
\* QColor("#rrggbb"): the color of a name, opaque
QColor(hex) ==
  [ r |-> 16 * hex[1] + hex[2], g |-> 16 * hex[3] + hex[4],
    b |-> 16 * hex[5] + hex[6], a |-> 255 ]

\* QColor.name(): "#rrggbb", the alpha channel is not part of the name
QColor_name(c) ==
  << c.r \div 16, c.r % 16, c.g \div 16, c.g % 16, c.b \div 16, c.b % 16 >>

\* "#d9d9d9", the default base color
DefaultColorName == << 13, 9, 13, 9, 13, 9 >>

\* "#a4b9d6", the base color the background is set to
ColorNameInput == << 10, 4, 11, 9, 13, 6 >>

\* the contrasts the background is set to: 0.4
ContrastInputs == {40}

\* the contrast of a new store, 0.75
DefaultContrast == 75

\* an element record of a document, as the persisted format describes it
ElementRecord(id, tag, parent_id) ==
  [ id |-> id, type |-> tag, name |-> NameInput, parent_id |-> parent_id,
    pos |-> <<0, 0>>, polyline |-> <<>>, settings |-> [beizhu |-> ""] ]

BackgroundInput == [color |-> ColorNameInput, contrast |-> 40]

\* the documents load_from_dict is given
DocEmpty ==
  [elements |-> <<>>, selected_id |-> None, background |-> BackgroundInput]
DocDanglingSelection == [elements |-> <<>>, selected_id |-> "e1a0f3"]
DocOneElement ==
  [ elements |-> << ElementRecord("e1a0f3", ElementType["VILLAGE_SMALL"], None) >>,
    selected_id |-> "e1a0f3", background |-> BackgroundInput ]
DocBadType ==
  [ elements |-> << ElementRecord("e1a0f3", "no-such-type", None) >>,
    selected_id |-> None, background |-> BackgroundInput ]
DocNoElements == [selected_id |-> None]
\* a document whose background holds the contrast 1.5
DocBadContrast ==
  [ elements |-> <<>>, selected_id |-> None,
    background |-> [color |-> ColorNameInput, contrast |-> 150] ]

DocInputs ==
  {DocEmpty, DocDanglingSelection, DocOneElement, DocBadType, DocNoElements}

\* the files load_from_file is pointed at: missing, not JSON, or JSON text
FileContent(path) ==
  CASE path = "missing.ezmap"  -> [kind |-> "absent"]
    [] path = "garbage.ezmap"  -> [kind |-> "text"]
    [] path = "empty.ezmap"    -> [kind |-> "json", data |-> DocEmpty]
    [] path = "dangling.ezmap" -> [kind |-> "json", data |-> DocDanglingSelection]
    [] path = "village.ezmap"  -> [kind |-> "json", data |-> DocOneElement]
    [] path = "badtype.ezmap"  -> [kind |-> "json", data |-> DocBadType]

LoadPaths ==
  { "missing.ezmap", "garbage.ezmap", "empty.ezmap", "dangling.ezmap",
    "village.ezmap", "badtype.ezmap" }

\* the paths save_to_file is given; the second is in no existing directory
SavePaths == {"out.ezmap", "no_such_dir/out.ezmap"}
Writable(path) == path # "no_such_dir/out.ezmap"

\* json.dump(data, f) and json.load(f): the documents hold only strings, null,
\* numbers, lists and string-keyed objects, which JSON text gives back as written
json_dump(data) == [kind |-> "json", data |-> data]
json_load(content) ==
  IF content.kind = "json" THEN [raised |-> FALSE, data |-> content.data]
  ELSE [raised |-> TRUE]

(***************************************************************************)
(* EditorState: the operations, as functions of the store                  *)
(*   st = [elements, selected_id, base_color, contrast]                    *)
(***************************************************************************)
EditorState(els, sel, color, con) ==
  [elements |-> els, selected_id |-> sel, base_color |-> color, contrast |-> con]

\* EditorState(): the store after construction
NewState == EditorState(<<>>, None, QColor(DefaultColorName), DefaultContrast)

\* an add_element that opens a new entry for every call
add_element_new_entry(st, element) ==
  [st EXCEPT !.elements = Append(st.elements, element),
             !.selected_id = element.id]

\* add_element without line 25
add_element_unselected(st, element) ==
  [st EXCEPT !.elements = DictSet(st.elements, element)]

add_element(st, element) ==
  [st EXCEPT !.elements = DictSet(st.elements, element),
             !.selected_id = element.id]

\* a children_of that takes None for "no parent given" and returns nothing
children_of_no_roots(els, parent_id) ==
  IF parent_id = None THEN <<>>
  ELSE SelectSeq(els, LAMBDA e : e.parent_id = parent_id)

\* the elements with the given parent_id, in dict order
children_of(els, parent_id) == SelectSeq(els, LAMBDA e : e.parent_id = parent_id)

\* Nested calls of delete_element_recursive beyond this depth have met an id
\* twice (a parent cycle), and Python ends them with RecursionError.
RecursionLimit == Cardinality(Ids) + 1

RECURSIVE delete_rec(_, _, _)
RECURSIVE delete_children(_, _, _)

\* the loop over list(self.children_of(element_id)); an exception ends it
delete_children(r, kids, depth) ==
  IF kids = <<>> \/ r.raised THEN r
  ELSE delete_children(delete_rec(r, Head(kids).id, depth + 1), Tail(kids), depth)

\* a delete that removes the element first and its children after it
delete_rec_parent_first(r, element_id, depth) ==
  IF depth > RecursionLimit THEN [r EXCEPT !.raised = TRUE]
  ELSE LET r0 == [ st |-> [r.st EXCEPT
                             !.elements = DictDel(r.st.elements, element_id),
                             !.selected_id = IF r.st.selected_id = element_id
                                             THEN None ELSE r.st.selected_id],
                   raised |-> FALSE,
                   deleted |-> IF element_id \in Keys(r.st.elements)
                               THEN Append(r.deleted, element_id)
                               ELSE r.deleted ]
       IN  delete_children(r0, children_of(r0.st.elements, element_id), depth)

\* a delete that drops the selection whatever it is
delete_rec_deselecting(r, element_id, depth) ==
  IF depth > RecursionLimit THEN [r EXCEPT !.raised = TRUE]
  ELSE LET r1 == delete_children(r, children_of(r.st.elements, element_id), depth)
       IN  IF r1.raised THEN r1
           ELSE [ st |-> [r1.st EXCEPT
                            !.elements = DictDel(r1.st.elements, element_id),
                            !.selected_id = None],
                  raised |-> FALSE,
                  deleted |-> IF element_id \in Keys(r1.st.elements)
                              THEN Append(r1.deleted, element_id)
                              ELSE r1.deleted ]

\* a delete that gives up silently, without an error, when the calls nest too
\* deep
delete_rec_silent_limit(r, element_id, depth) ==
  IF depth > RecursionLimit THEN r
  ELSE LET r1 == delete_children(r, children_of(r.st.elements, element_id), depth)
       IN  IF r1.raised THEN r1
           ELSE [ st |-> [r1.st EXCEPT
                            !.elements = DictDel(r1.st.elements, element_id),
                            !.selected_id = IF r1.st.selected_id = element_id
                                            THEN None ELSE r1.st.selected_id],
                  raised |-> FALSE,
                  deleted |-> IF element_id \in Keys(r1.st.elements)
                              THEN Append(r1.deleted, element_id)
                              ELSE r1.deleted ]

\* one call, r = [st, raised, deleted]: deleted lists the keys in the order
\* they are removed
delete_rec(r, element_id, depth) ==
  IF depth > RecursionLimit THEN [r EXCEPT !.raised = TRUE]
  ELSE LET r1 == delete_children(r, children_of(r.st.elements, element_id), depth)
       IN  IF r1.raised THEN r1
           ELSE [ st |-> [r1.st EXCEPT
                            !.elements = DictDel(r1.st.elements, element_id),
                            !.selected_id = IF r1.st.selected_id = element_id
                                            THEN None ELSE r1.st.selected_id],
                  raised |-> FALSE,
                  deleted |-> IF element_id \in Keys(r1.st.elements)
                              THEN Append(r1.deleted, element_id)
                              ELSE r1.deleted ]

\* a delete that removes the element alone and leaves its children
delete_element_shallow(st, element_id) ==
  [ st |-> [st EXCEPT !.elements = DictDel(st.elements, element_id),
                      !.selected_id = IF st.selected_id = element_id
                                      THEN None ELSE st.selected_id],
    raised |-> FALSE,
    deleted |-> IF element_id \in Keys(st.elements) THEN <<element_id>> ELSE <<>> ]

\* a delete that compares the selection with the id it was called with only
delete_element_top_selection(st, element_id) ==
  LET r == delete_rec([st |-> st, raised |-> FALSE, deleted |-> <<>>], element_id, 1)
  IN  IF r.raised THEN r
      ELSE [r EXCEPT !.st.selected_id = IF st.selected_id = element_id
                                        THEN None ELSE st.selected_id]

delete_element_recursive(st, element_id) ==
  delete_rec([st |-> st, raised |-> FALSE, deleted |-> <<>>], element_id, 1)

\* a set_selected that does not look the id up
set_selected_unchecked(st, element_id) == [st EXCEPT !.selected_id = element_id]

set_selected(st, element_id) ==
  [st EXCEPT !.selected_id =
     IF element_id \in Keys(st.elements) THEN element_id ELSE None]

\* self.elements.get(element_id), then the assignment to the element found:
\* the entry under element_id becomes changed, when there is one
SetEntry(els, element_id, changed) ==
  [i \in DOMAIN els |-> IF els[i].id = element_id THEN changed ELSE els[i]]

update_name(st, element_id, name) ==
  IF element_id \notin Keys(st.elements) THEN st
  ELSE [st EXCEPT !.elements =
          SetEntry(st.elements, element_id,
                   [Lookup(st.elements, element_id) EXCEPT !.name = name])]

\* an update_setting that rebuilds the settings from the one key
update_setting_replace(st, element_id, key, value) ==
  IF element_id \notin Keys(st.elements) THEN st
  ELSE LET e == Lookup(st.elements, element_id)
       IN  [st EXCEPT !.elements =
              SetEntry(st.elements, element_id,
                       [e EXCEPT !.settings = [k \in {key} |-> value]])]

update_setting(st, element_id, key, value) ==
  IF element_id \notin Keys(st.elements) THEN st
  ELSE LET e == Lookup(st.elements, element_id)
       IN  [st EXCEPT !.elements =
              SetEntry(st.elements, element_id,
                       [e EXCEPT !.settings =
                          DictUpdate(e.settings, [k \in {key} |-> value])])]

update_parent(st, element_id, parent_id) ==
  IF element_id \notin Keys(st.elements) THEN st
  ELSE [st EXCEPT !.elements =
          SetEntry(st.elements, element_id,
                   [Lookup(st.elements, element_id) EXCEPT !.parent_id = parent_id])]

\* create_element, with eid the value new_id() returns inside MapElement.create
create_element(st, eid, t, parent_id, name, x, y) ==
  add_element(st, MapElement_create(eid, t, name, parent_id, <<x, y>>))

\* a clear that keeps the selection
clear_keep_selection(st) == [NewState EXCEPT !.selected_id = st.selected_id]

\* a clear that resets the elements and the selection only
clear_keep_background(st) == [st EXCEPT !.elements = <<>>, !.selected_id = None]

clear(st) == NewState

set_background(st, color, con) ==
  [st EXCEPT !.base_color = color, !.contrast = con]

(***************************************************************************)
(* EditorState: persistence                                                *)
(***************************************************************************)
\* element.to_dict(): MapElement defines no to_dict (elements.py defines
\* create, get_image_path, set_image_path and get_image_size only), so the
\* attribute lookup raises AttributeError
MapElement_to_dict(element) == [raised |-> TRUE]

\* MapElement.from_dict(element_data): no from_dict either, AttributeError
MapElement_from_dict(element_data) == [raised |-> TRUE]

RECURSIVE elements_to_dicts(_)
\* [element.to_dict() for element in self.elements.values()]
elements_to_dicts(els) ==
  IF els = <<>> THEN [raised |-> FALSE, list |-> <<>>]
  ELSE LET d == MapElement_to_dict(Head(els))
       IN  IF d.raised THEN [raised |-> TRUE]
           ELSE LET rest == elements_to_dicts(Tail(els))
                IN  IF rest.raised THEN rest
                    ELSE [raised |-> FALSE, list |-> <<d.dict>> \o rest.list]

to_dict(st) ==
  LET l == elements_to_dicts(st.elements)
  IN  IF l.raised THEN [raised |-> TRUE]
      ELSE [ raised |-> FALSE,
             data |-> [ elements |-> l.list,
                        selected_id |-> st.selected_id,
                        background |-> [ color |-> QColor_name(st.base_color),
                                         contrast |-> st.contrast ] ] ]

RECURSIVE load_elements(_, _)
\* the loop of load_from_dict over data["elements"], els the dict so far
load_elements(els, records) ==
  IF records = <<>> THEN [raised |-> FALSE, elements |-> els]
  ELSE LET e == MapElement_from_dict(Head(records))
       IN  IF e.raised THEN [raised |-> TRUE, elements |-> els]
           ELSE load_elements(DictSet(els, e.element), Tail(records))

\* the background block of load_from_dict
load_background(st, data) ==
  IF "background" \notin DOMAIN data THEN st
  ELSE LET bg == data.background
           s1 == IF "color" \in DOMAIN bg
                 THEN [st EXCEPT !.base_color = QColor(bg.color)] ELSE st
       IN  IF "contrast" \in DOMAIN bg
           THEN [s1 EXCEPT !.contrast = bg.contrast] ELSE s1

\* a load_from_dict that does not empty the mapping first
load_from_dict_merging(st, data) ==
  IF "elements" \notin DOMAIN data
  THEN [st |-> st, raised |-> TRUE]
  ELSE LET l == load_elements(st.elements, data.elements)
           loaded == [st EXCEPT !.elements = l.elements]
       IN  IF l.raised THEN [st |-> loaded, raised |-> TRUE]
           ELSE [ st |-> load_background(
                           [loaded EXCEPT !.selected_id =
                              IF "selected_id" \in DOMAIN data
                              THEN data.selected_id ELSE None],
                           data),
                  raised |-> FALSE ]

\* load_from_dict: [st, raised], st the store as the call leaves it
load_from_dict(st, data) ==
  LET cleared == [st EXCEPT !.elements = <<>>]
  IN  IF "elements" \notin DOMAIN data
      THEN [st |-> cleared, raised |-> TRUE]
      ELSE LET l == load_elements(<<>>, data.elements)
               loaded == [cleared EXCEPT !.elements = l.elements]
           IN  IF l.raised THEN [st |-> loaded, raised |-> TRUE]
               ELSE [ st |-> load_background(
                               [loaded EXCEPT !.selected_id =
                                  IF "selected_id" \in DOMAIN data
                                  THEN data.selected_id ELSE None],
                               data),
                      raised |-> FALSE ]

\* save_to_file without its try/except
save_to_file_uncaught(st, filepath) ==
  LET d == to_dict(st)
  IN  IF d.raised \/ ~Writable(filepath)
      THEN [ret |-> FALSE, raised |-> TRUE, written |-> [kind |-> "untouched"]]
      ELSE [ret |-> TRUE, raised |-> FALSE, written |-> json_dump(d.data)]

\* save_to_file: [ret, raised, written]; written is what the call leaves in the
\* file, "untouched" when the file was not opened
save_to_file(st, filepath) ==
  LET d == to_dict(st)
  IN  IF d.raised \/ ~Writable(filepath)
      THEN [ret |-> FALSE, raised |-> FALSE, written |-> [kind |-> "untouched"]]
      ELSE [ret |-> TRUE, raised |-> FALSE, written |-> json_dump(d.data)]

\* load_from_file of a file holding content: [st, ret, raised]
load_from_content(st, content) ==
  LET j == json_load(content)
  IN  IF content.kind = "absent" \/ j.raised
      THEN [st |-> st, ret |-> FALSE, raised |-> FALSE]
      ELSE LET l == load_from_dict(st, j.data)
           IN  [st |-> l.st, ret |-> ~l.raised, raised |-> FALSE]

load_from_file(st, filepath) == load_from_content(st, FileContent(filepath))

(***************************************************************************)
(* The state machine: calls of the store's public operations.              *)
(*                                                                         *)
(* elements, selected_id, base_color, contrast are the fields of the       *)
(* store. used holds every id that has been a key of the store or was      *)
(* returned by new_id(). last describes one observed call: its name and    *)
(* arguments, the store before it (pre) and its outcome (ret: what it      *)
(* returned, or "raised" when an exception left it). A behaviour is a      *)
(* sequence of calls that builds a store, followed by one observed call.   *)
(***************************************************************************)
St == EditorState(elements, selected_id, base_color, contrast)

NoCall == [op |-> "none"]

Becomes(st) ==
  /\ elements' = st.elements
  /\ selected_id' = st.selected_id
  /\ base_color' = st.base_color
  /\ contrast' = st.contrast

Observed(obs, call) == last' = IF obs THEN call ELSE NoCall

\* the elements add_element is given
ElementInputs ==
  { MapElement(id, "VILLAGE_SMALL", NameInput, p, <<0, 0>>, <<>>,
               default_settings_for("VILLAGE_SMALL")) :
      id \in Ids, p \in ParentInputs }

\* uuid4().hex: an id that has not been seen before
new_id == Ids \ used

\* the ids the window's handlers are given by new_id: one order of issue
next_id == IF new_id = {} THEN {} ELSE {CHOOSE id \in new_id : TRUE}

(***************************************************************************)
(* ui_main_window.py: the main window over the store                       *)
(***************************************************************************)
\* the types the palette buttons prepare for placement
TypesPlaced == {"COUNTRY_SMALL", "CITY_SMALL", "TOWN_SMALL", "RIVER_SMALL"}

\* what is typed in the name box and in the custom element dialog
NameTexts == {"", "n2"}

\* `sub in s` of two strings
Contains(s, sub) ==
  \E i \in 1..(Len(s) - Len(sub) + 1) : SubSeq(s, i, i + Len(sub) - 1) = sub

\* the characters of names, in code point order
Alphabet == "-0123456789abcdefghijklmnopqrstuvwxyz"

CharRank(c) == CHOOSE i \in 1..Len(Alphabet) : SubSeq(Alphabet, i, i) = c

RECURSIVE StrLessFrom(_, _, _)
\* a < b of two strings that agree before position i
StrLessFrom(a, b, i) ==
  IF i > Len(b) THEN FALSE
  ELSE IF i > Len(a) THEN TRUE
  ELSE LET x == CharRank(SubSeq(a, i, i))
           y == CharRank(SubSeq(b, i, i))
       IN  IF x < y THEN TRUE
           ELSE IF x > y THEN FALSE
           ELSE StrLessFrom(a, b, i + 1)

RECURSIVE sorted_by_name(_)
\* sorted(s, key=lambda x: x.name): stable, equal names keep their order
sorted_by_name(s) ==
  IF s = <<>> THEN <<>>
  ELSE LET rest == sorted_by_name(SubSeq(s, 1, Len(s) - 1))
           e == s[Len(s)]
           k == Cardinality({i \in DOMAIN rest : ~StrLessFrom(e.name, rest[i].name, 1)})
       IN  SubSeq(rest, 1, k) \o <<e>> \o SubSeq(rest, k + 1, Len(rest))

RECURSIVE add_node(_, _, _, _)
RECURSIVE add_nodes(_, _, _, _)

\* the loops of _rebuild_tree over sorted children and sorted roots
add_nodes(tree, els, nodes, parent_item) ==
  IF nodes = <<>> THEN tree
  ELSE add_nodes(add_node(tree, els, Head(nodes).id, parent_item),
                 els, Tail(nodes), parent_item)

\* add_node of _rebuild_tree: an item is [id, name, label, parent], parent the
\* id of the item it is a child of, None for a top level item
add_node(tree, els, eid, parent_item) ==
  LET e == Lookup(els, eid)
      it == [id |-> e.id, name |-> e.name, label |-> ElementType[e.type],
             parent |-> parent_item]
  IN  add_nodes(Append(tree, it), els, sorted_by_name(children_of(els, e.id)), e.id)

\* the roots _rebuild_tree starts from
tree_roots(els) == SelectSeq(els, LAMBDA e : e.parent_id = None)

\* _rebuild_tree: the items of the tree in the order they are made
rebuild_tree(els) == add_nodes(<<>>, els, sorted_by_name(tree_roots(els)), None)

\* _element_items after _add_item_for_element(e), as the list of its keys
add_item_for_element(items, eid) ==
  IF \E i \in DOMAIN items : items[i] = eid THEN items ELSE Append(items, eid)

\* generate_and_draw: the canvas items and the tree made anew from the store
generate_and_draw(w, els) ==
  [w EXCEPT !.element_items = [i \in DOMAIN els |-> els[i].id],
            !.tree = rebuild_tree(els)]

\* the window after EzMapWindow.__init__; slider_contrast is the position of
\* the contrast slider, int(contrast * 100) of the new store
WindowInit ==
  [ is_placing |-> FALSE, selected_element_type |-> None,
    element_items |-> <<>>, tree |-> <<>>, current_filepath |-> None,
    slider_contrast |-> DefaultContrast ]

\* max(lo, min(hi, v))
Clamp(lo, hi, v) == IF v < lo THEN lo ELSE IF v > hi THEN hi ELSE v

\* on_contrast_changed(value): [st, window]
on_contrast_changed(st, w, value) ==
  [ st |-> set_background(st, st.base_color, Clamp(0, 100, value)),
    window |-> generate_and_draw(w, st.elements) ]

\* slider_contrast.setValue(value): the slider keeps the value within its
\* range 0..100 and emits valueChanged, which on_contrast_changed is connected
\* to, only when its position changes
slider_setValue(st, w, value) ==
  LET v == Clamp(0, 100, value)
  IN  IF v = w.slider_contrast THEN [st |-> st, window |-> w]
      ELSE on_contrast_changed(st, [w EXCEPT !.slider_contrast = v], v)

\* the position a click on the canvas is made at
ClickX == 10
ClickY == 20

\* a placement that puts elements under a selected country only
placement_parent_country_only(st, t) ==
  IF st.selected_id = None \/ st.selected_id \notin Keys(st.elements) THEN None
  ELSE LET sel == Lookup(st.elements, st.selected_id)
       IN  IF Contains(sel.type, "COUNTRY") /\ ~Contains(t, "COUNTRY") THEN sel.id
           ELSE None

\* the parent _place_element_at gives a new element of type t
placement_parent(st, t) ==
  IF st.selected_id = None \/ st.selected_id \notin Keys(st.elements) THEN None
  ELSE LET sel == Lookup(st.elements, st.selected_id)
       IN  IF Contains(sel.type, "COUNTRY") /\ ~Contains(t, "COUNTRY") THEN sel.id
           ELSE IF Contains(sel.type, "CITY") /\ ~Contains(t, "CITY") THEN sel.id
           ELSE IF Contains(sel.type, "TOWN") /\ ~Contains(t, "TOWN") THEN sel.id
           ELSE None

\* the default polyline of a river or mountain placed at (x, y)
default_polyline(x, y) ==
  << <<x - 60, y - 10>>, <<x - 20, y + 10>>, <<x + 30, y - 5>>, <<x + 70, y + 15>> >>

\* a placement that gives every element the default polyline
place_element_always_polyline(st, eid, t, x, y) ==
  LET s1 == create_element(st, eid, t, placement_parent(st, t), None, x, y)
  IN  [s1 EXCEPT !.elements =
         SetEntry(s1.elements, eid,
                  [Lookup(s1.elements, eid) EXCEPT
                     !.polyline = default_polyline(x, y)])]

\* the store after _place_element_at has created the element eid
place_element(st, eid, t, x, y) ==
  LET s1 == create_element(st, eid, t, placement_parent(st, t), None, x, y)
  IN  IF Contains(t, "RIVER") \/ Contains(t, "MOUNTAIN")
      THEN [s1 EXCEPT !.elements =
              SetEntry(s1.elements, eid,
                       [Lookup(s1.elements, eid) EXCEPT
                          !.polyline = default_polyline(x, y)])]
      ELSE s1

Init ==
  /\ elements = NewState.elements
  /\ selected_id = NewState.selected_id
  /\ base_color = NewState.base_color
  /\ contrast = NewState.contrast
  /\ used = {}
  /\ last = NoCall
  /\ window = WindowInit

AddElement(e, obs) ==
  /\ last = NoCall
  /\ UNCHANGED window
  /\ e.id \in Keys(elements) \/ Len(elements) < MaxElems
  /\ Becomes(add_element(St, e))
  /\ used' = used \cup {e.id}
  /\ Observed(obs, [op |-> "add_element", e |-> e, pre |-> St, ret |-> "None"])

CreateElement(eid, t, parent_id, name, obs) ==
  /\ last = NoCall
  /\ UNCHANGED window
  /\ eid \in new_id
  /\ Len(elements) < MaxElems
  /\ Becomes(create_element(St, eid, t, parent_id, name, 0, 0))
  /\ used' = used \cup {eid}
  /\ Observed(obs, [op |-> "create_element", t |-> t, parent_id |-> parent_id,
                    name |-> name, pre |-> St, ret |-> eid])

DeleteElementRecursive(x, obs) ==
  /\ last = NoCall
  /\ UNCHANGED window
  /\ LET r == delete_element_recursive(St, x)
     IN  /\ Becomes(r.st)
         /\ Observed(obs, [op |-> "delete_element_recursive", id |-> x, pre |-> St,
                           ret |-> IF r.raised THEN "raised" ELSE "None",
                           deleted |-> r.deleted])
  /\ UNCHANGED used

SetSelected(id, obs) ==
  /\ last = NoCall
  /\ UNCHANGED window
  /\ Becomes(set_selected(St, id))
  /\ Observed(obs, [op |-> "set_selected", id |-> id, pre |-> St, ret |-> "None"])
  /\ UNCHANGED used

UpdateName(id, name) ==
  /\ last = NoCall
  /\ UNCHANGED window
  /\ Becomes(update_name(St, id, name))
  /\ last' = [op |-> "update_name", id |-> id, name |-> name, pre |-> St,
              ret |-> "None"]
  /\ UNCHANGED used

UpdateSetting(id, key, value) ==
  /\ last = NoCall
  /\ UNCHANGED window
  /\ Becomes(update_setting(St, id, key, value))
  /\ last' = [op |-> "update_setting", id |-> id, key |-> key, value |-> value,
              pre |-> St, ret |-> "None"]
  /\ UNCHANGED used

UpdateParent(id, parent_id, obs) ==
  /\ last = NoCall
  /\ UNCHANGED window
  /\ Becomes(update_parent(St, id, parent_id))
  /\ Observed(obs, [op |-> "update_parent", id |-> id, parent_id |-> parent_id,
                    pre |-> St, ret |-> "None"])
  /\ UNCHANGED used

SetBackground(color, con, obs) ==
  /\ last = NoCall
  /\ UNCHANGED window
  /\ Becomes(set_background(St, color, con))
  /\ Observed(obs, [op |-> "set_background", pre |-> St, ret |-> "None"])
  /\ UNCHANGED used

Clear(obs) ==
  /\ last = NoCall
  /\ UNCHANGED window
  /\ Becomes(clear(St))
  /\ Observed(obs, [op |-> "clear", pre |-> St, ret |-> "None"])
  /\ UNCHANGED used

LoadFromDict(data, obs) ==
  /\ last = NoCall
  /\ UNCHANGED window
  /\ LET r == load_from_dict(St, data)
     IN  /\ Becomes(r.st)
         /\ used' = used \cup Keys(r.st.elements)
         /\ Observed(obs, [op |-> "load_from_dict", data |-> data, pre |-> St,
                           ret |-> IF r.raised THEN "raised" ELSE "None"])

LoadFromFile(path, obs) ==
  /\ last = NoCall
  /\ UNCHANGED window
  /\ LET r == load_from_file(St, path)
     IN  /\ Becomes(r.st)
         /\ used' = used \cup Keys(r.st.elements)
         /\ Observed(obs, [op |-> "load_from_file", path |-> path, pre |-> St,
                           ret |-> IF r.raised THEN "raised"
                                   ELSE IF r.ret THEN "True" ELSE "False"])

SaveToFile(path, obs) ==
  /\ last = NoCall
  /\ UNCHANGED window
  /\ LET r == save_to_file(St, path)
     IN  Observed(obs, [op |-> "save_to_file", path |-> path, pre |-> St,
                        ret |-> IF r.raised THEN "raised"
                                ELSE IF r.ret THEN "True" ELSE "False",
                        written |-> r.written])
  /\ UNCHANGED <<elements, selected_id, base_color, contrast, used>>

\* a query: the list it returns is the outcome, the store is not touched
ChildrenOf(parent_id) ==
  /\ last = NoCall
  /\ UNCHANGED window
  /\ last' = [op |-> "children_of", parent_id |-> parent_id, pre |-> St,
              ret |-> children_of(elements, parent_id)]
  /\ UNCHANGED <<elements, selected_id, base_color, contrast, used>>

\* _rebuild_tree called on the store as it is; the tree is the outcome
RebuildTree ==
  /\ last = NoCall
  /\ window' = [window EXCEPT !.tree = rebuild_tree(elements)]
  /\ last' = [op |-> "_rebuild_tree", pre |-> St, ret |-> "None"]
  /\ UNCHANGED <<elements, selected_id, base_color, contrast, used>>

\* The calls that build the store vary the ids, the parent links, the
\* selection and the background; the calls that also vary the type, the name
\* and the settings of an element are taken as the observed call.
Next ==
  \E obs \in BOOLEAN :
    \/ \E e \in ElementInputs : AddElement(e, obs)
    \/ \E eid \in Ids, t \in TypesUsed, p \in {None, "e1a0f3"},
          name \in {None, "", NameInput} :
         /\ obs
         /\ CreateElement(eid, t, p, name, obs)
    \/ \E eid \in Ids, t \in DOMAIN ElementType :
         /\ obs
         /\ elements = <<>>
         /\ CreateElement(eid, t, None, None, obs)
    \/ \E eid \in Ids : CreateElement(eid, "VILLAGE_SMALL", None, NameInput, obs)
    \/ \E x \in Ids : DeleteElementRecursive(x, obs)
    \/ \E id \in Ids \cup {None} : SetSelected(id, obs)
    \/ \E id \in Ids : UpdateName(id, "n2")
    \/ \E id \in Ids, key \in SettingKeyInputs : UpdateSetting(id, key, "hello")
    \/ \E id \in Ids, p \in ParentInputs : UpdateParent(id, p, obs)
    \/ \E con \in ContrastInputs : SetBackground(QColor(ColorNameInput), con, obs)
    \/ Clear(obs)
    \/ \E data \in DocInputs : LoadFromDict(data, obs)
    \/ /\ obs
       /\ LoadFromDict(DocBadContrast, obs)
    \/ \E path \in LoadPaths : LoadFromFile(path, obs)
    \/ \E path \in SavePaths : SaveToFile(path, obs)
    \/ \E p \in ParentInputs : ChildrenOf(p)
    \/ /\ obs
       /\ RebuildTree

Spec == Init /\ [][Next]_vars

(***************************************************************************)
(* The handlers of the main window                                         *)
(***************************************************************************)
PreparePlaceElement(element_type) ==
  /\ window' = [window EXCEPT !.selected_element_type = element_type,
                              !.is_placing = TRUE]
  /\ UNCHANGED <<elements, selected_id, base_color, contrast, used, last>>

\* a cancel that leaves the chosen type in place
cancel_placement_keep_type(w) == [w EXCEPT !.is_placing = FALSE]

cancel_placement(w) ==
  [w EXCEPT !.selected_element_type = None, !.is_placing = FALSE]

CancelPlacement ==
  /\ window' = cancel_placement(window)
  /\ UNCHANGED <<elements, selected_id, base_color, contrast, used, last>>

\* a click on the canvas: _on_view_mouse_press, and _place_element_at when
\* the window is in placement mode
OnViewMousePress(eid, x, y) ==
  IF window.is_placing /\ window.selected_element_type # None
  THEN /\ eid \in new_id
       /\ Len(elements) < MaxElems
       /\ LET s1 == place_element(St, eid, window.selected_element_type, x, y)
              w1 == [window EXCEPT
                       !.element_items = add_item_for_element(@, eid),
                       !.tree = rebuild_tree(s1.elements)]
          IN  /\ Becomes(set_selected(s1, eid))
              /\ window' = cancel_placement(w1)
       /\ used' = used \cup {eid}
       /\ UNCHANGED last
  ELSE UNCHANGED vars

AddCustomElement(name, eid) ==
  IF name # ""
  THEN /\ eid \in new_id
       /\ Len(elements) < MaxElems
       /\ LET s1 == create_element(St, eid, "CUSTOM", None, name, 0, 0)
          IN  /\ Becomes(set_selected(s1, eid))
              /\ window' = [window EXCEPT
                              !.element_items = add_item_for_element(@, eid),
                              !.tree = rebuild_tree(s1.elements)]
       /\ used' = used \cup {eid}
       /\ UNCHANGED last
  ELSE UNCHANGED vars

\* select_element, called with the id of a canvas item or of a tree item
SelectElement(element_id) ==
  /\ \/ \E i \in DOMAIN window.element_items : window.element_items[i] = element_id
     \/ \E i \in DOMAIN window.tree : window.tree[i].id = element_id
  /\ Becomes(set_selected(St, element_id))
  /\ UNCHANGED <<used, last, window>>

\* on_name_edited, text what the name box holds
OnNameEdited(text) ==
  IF selected_id = None \/ selected_id \notin Keys(elements) \/ text = ""
  THEN UNCHANGED vars
  ELSE LET s1 == update_name(St, selected_id, text)
       IN  /\ Becomes(s1)
           /\ window' = [window EXCEPT !.tree = rebuild_tree(s1.elements)]
           /\ UNCHANGED <<used, last>>

\* on_setting_item_changed for the row of key in the settings table
OnSettingItemChanged(key, value) ==
  IF selected_id = None \/ selected_id \notin Keys(elements)
  THEN UNCHANGED vars
  ELSE /\ key \in DOMAIN Lookup(elements, selected_id).settings
       /\ Becomes(update_setting(St, selected_id, key, value))
       /\ UNCHANGED <<used, last, window>>

\* a delete_selected that removes the selected element and leaves its children
DeleteSelectedAlone ==
  IF selected_id = None
  THEN UNCHANGED vars
  ELSE LET s1 == [St EXCEPT !.elements = DictDel(elements, selected_id),
                            !.selected_id = None]
       IN  /\ Becomes(s1)
           /\ window' = generate_and_draw(window, s1.elements)
           /\ UNCHANGED <<used, last>>

\* delete_selected; an exception of the store leaves the window as it is
DeleteSelected ==
  IF selected_id = None
  THEN UNCHANGED vars
  ELSE LET r == delete_element_recursive(St, selected_id)
       IN  /\ Becomes(r.st)
           /\ window' = IF r.raised THEN window
                        ELSE generate_and_draw(window, r.st.elements)
           /\ UNCHANGED <<used, last>>

\* save_file with no current file: save_file_as with the path the dialog
\* gives, "" when it is dismissed
save_file(w, st, path) ==
  IF w.current_filepath # None
  THEN [ok |-> save_to_file(st, w.current_filepath).ret, window |-> w]
  ELSE IF path = "" THEN [ok |-> FALSE, window |-> w]
  ELSE IF save_to_file(st, path).ret
       THEN [ok |-> TRUE, window |-> [w EXCEPT !.current_filepath = path]]
       ELSE [ok |-> FALSE, window |-> w]

\* new_file, reply the answer to the question it asks when there is a
\* current file or an element
NewFile(reply, path) ==
  LET asks == window.current_filepath # None \/ elements # <<>>
      saved == save_file(window, St, path)
  IN  IF asks /\ reply = "Cancel" THEN UNCHANGED vars
      ELSE IF asks /\ reply = "Yes" /\ ~saved.ok
      THEN /\ window' = saved.window
           /\ UNCHANGED <<elements, selected_id, base_color, contrast, used, last>>
      ELSE LET w0 == IF asks /\ reply = "Yes" THEN saved.window ELSE window
               r == slider_setValue(clear(St),
                                    [w0 EXCEPT !.current_filepath = None],
                                    clear(St).contrast)
           IN  /\ Becomes(r.st)
               /\ window' = generate_and_draw(r.window, r.st.elements)
               /\ UNCHANGED <<used, last>>

\* pick_base_color, valid whether the dialog gave a color
PickBaseColor(c, valid) ==
  IF valid
  THEN /\ Becomes(set_background(St, c, contrast))
       /\ window' = generate_and_draw(window, elements)
       /\ UNCHANGED <<used, last>>
  ELSE UNCHANGED vars

\* the slider is moved to value: on_contrast_changed
OnContrastChanged(value) ==
  LET r == slider_setValue(St, window, value)
  IN  /\ Becomes(r.st)
      /\ window' = r.window
      /\ UNCHANGED <<used, last>>

NextUI ==
  \/ \E t \in TypesPlaced : PreparePlaceElement(t)
  \/ CancelPlacement
  \/ \E eid \in next_id : OnViewMousePress(eid, ClickX, ClickY)
  \/ \E name \in NameTexts, eid \in next_id : AddCustomElement(name, eid)
  \/ \E id \in Ids : SelectElement(id)
  \/ \E text \in NameTexts : OnNameEdited(text)
  \/ OnSettingItemChanged("beizhu", "hello")
  \/ DeleteSelected
  \/ \E reply \in {"No", "Cancel"} : NewFile(reply, "")
  \/ \E path \in SavePaths \cup {""} : NewFile("Yes", path)
  \/ \E valid \in BOOLEAN : PickBaseColor(QColor(ColorNameInput), valid)
  \/ \E value \in ContrastInputs : OnContrastChanged(value)

SpecUI == Init /\ [][NextUI]_vars

\* the files the open dialog gives; "" when it is dismissed
OpenPaths == {"", "missing.ezmap", "empty.ezmap", "village.ezmap"}

\* open_file, reply the answer to the question it asks when there is a
\* current file or an element, savepath what the save dialog gives, path what
\* the open dialog gives
OpenFile(reply, savepath, path) ==
  LET asks == window.current_filepath # None \/ elements # <<>>
      saved == save_file(window, St, savepath)
      w0 == IF asks /\ reply = "Yes" THEN saved.window ELSE window
      l == load_from_file(St, path)
  IN  IF asks /\ reply = "Cancel" THEN UNCHANGED vars
      ELSE IF (asks /\ reply = "Yes" /\ ~saved.ok) \/ path = ""
      THEN /\ window' = w0
           /\ UNCHANGED <<elements, selected_id, base_color, contrast, used, last>>
      ELSE IF l.ret
      THEN LET r == slider_setValue(l.st, [w0 EXCEPT !.current_filepath = path],
                                    l.st.contrast)
           IN  /\ Becomes(r.st)
               /\ window' = generate_and_draw(r.window, r.st.elements)
               /\ used' = used \cup Keys(r.st.elements)
               /\ UNCHANGED last
      ELSE /\ Becomes(l.st)
           /\ window' = w0
           /\ used' = used \cup Keys(l.st.elements)
           /\ UNCHANGED last

\* the handlers of the window, those of the file menu among them
NextUIFiles ==
  \/ NextUI
  \/ \E path \in OpenPaths : OpenFile("No", "", path)
  \/ OpenFile("Cancel", "", "empty.ezmap")
  \/ \E savepath \in SavePaths \cup {""} : OpenFile("Yes", savepath, "empty.ezmap")

SpecUIFiles == Init /\ [][NextUIFiles]_vars

(***************************************************************************)
(* Notions the properties are stated with                                  *)
(***************************************************************************)
RECURSIVE ChainReaches(_, _, _, _)
\* following parent_id links from id, for at most n links, meets x
ChainReaches(els, id, x, n) ==
  \/ id = x
  \/ /\ n > 0
     /\ id \in Keys(els)
     /\ ChainReaches(els, Lookup(els, id).parent_id, x, n - 1)

\* the parent chain of the element e reaches x
ParentChainReaches(els, e, x) == ChainReaches(els, e.parent_id, x, Len(els))

\* x is an element that is its own ancestor
OnParentCycle(els, x) ==
  x \in Keys(els) /\ ParentChainReaches(els, Lookup(els, x), x)

\* the ids of x and of the elements whose parent chain reaches x
SubtreeIds(els, x) ==
  {x} \cup {els[i].id : i \in {j \in DOMAIN els : ParentChainReaches(els, els[j], x)}}

\* the elements outside the subtree of x, as they are in els
OutsideSubtree(els, x) == SelectSeq(els, LAMBDA e : e.id \notin SubtreeIds(els, x))

Deleting == last.op = "delete_element_recursive"

(***************************************************************************)
(* C1. In every reachable state selected_id is None or a key of elements.  *)
(* (Fails: load_from_dict takes the document's selected_id as it is, and a *)
(* load that fails empties elements and keeps selected_id.)                *)
(***************************************************************************)
C1_SelectionIsNoneOrKey ==
  selected_id = None \/ selected_id \in Keys(elements)

(***************************************************************************)
(* C2. As claimed: after delete_element_recursive(x), for every store, the *)
(* store holds exactly the elements outside the subtree of x, unmodified.  *)
(* (Fails when x is on a parent cycle: the call ends with RecursionError.) *)
(***************************************************************************)
C2_Original_DeleteLeavesOutsideSubtree ==
  Deleting => elements = OutsideSubtree(last.pre.elements, last.id)

(***************************************************************************)
(* C2, amended. When x is not on a parent cycle, delete_element_recursive  *)
(* returns and the store then holds exactly the elements whose parent      *)
(* chain does not reach x (and that are not x), unmodified and in their    *)
(* order; the background is unchanged.                                     *)
(***************************************************************************)
C2_DeleteLeavesOutsideSubtree ==
  (Deleting /\ ~OnParentCycle(last.pre.elements, last.id)) =>
     /\ last.ret = "None"
     /\ elements = OutsideSubtree(last.pre.elements, last.id)
     /\ base_color = last.pre.base_color
     /\ contrast = last.pre.contrast

\* a root with a child is deleted and the store is left empty
C2_Witness ==
  /\ Deleting
  /\ last.id \in Keys(last.pre.elements)
  /\ Lookup(last.pre.elements, last.id).parent_id = None
  /\ \E i \in DOMAIN last.pre.elements : last.pre.elements[i].parent_id = last.id
  /\ elements = <<>>

(***************************************************************************)
(* C3. As claimed: when load_from_file returns False because an element    *)
(* record of the document cannot be reconstructed, elements, selected_id,  *)
(* base_color and contrast are as before the call.                         *)
(* (Fails: load_from_dict empties elements before it reads the records.)   *)
(***************************************************************************)
\* the values of ElementType, the type tags a record can be rebuilt from
TypeTags == {ElementType[t] : t \in DOMAIN ElementType}

\* the file of the observed load_from_file is a document with an element
\* record whose type tag is no ElementType
LoadingUnknownType ==
  /\ last.op = "load_from_file"
  /\ FileContent(last.path).kind = "json"
  /\ "elements" \in DOMAIN FileContent(last.path).data
  /\ \E i \in DOMAIN FileContent(last.path).data.elements :
       FileContent(last.path).data.elements[i].type \notin TypeTags

C3_FailedLoadLeavesStore ==
  (LoadingUnknownType /\ last.ret = "False") => St = last.pre

(***************************************************************************)
(* C4. As claimed: for every store the operations reach, to_dict gives a   *)
(* document from which load_from_dict rebuilds the same elements, the same *)
(* selected_id and the same background.                                    *)
(* (Fails for every store that holds an element: to_dict calls             *)
(* element.to_dict(), which MapElement does not define.)                   *)
(***************************************************************************)
SameStore(a, b) ==
  /\ {a.elements[i] : i \in DOMAIN a.elements} = {b.elements[i] : i \in DOMAIN b.elements}
  /\ a.selected_id = b.selected_id
  /\ a.base_color = b.base_color
  /\ a.contrast = b.contrast

C4_RoundTrip ==
  LET d == to_dict(St)
  IN  /\ ~d.raised
      /\ LET l == load_from_dict(St, d.data)
         IN  ~l.raised /\ SameStore(l.st, St)

(***************************************************************************)
(* C5. As claimed: with one or more elements in the store and a writable   *)
(* path, save_to_file returns True, and load_from_file of the file it      *)
(* wrote returns True and gives as many elements, the same selected_id and *)
(* the same background.                                                    *)
(* (Fails: save_to_file returns False and writes nothing, see C4.)         *)
(***************************************************************************)
C5_SaveThenLoad ==
  (/\ last.op = "save_to_file"
   /\ Writable(last.path)
   /\ last.pre.elements # <<>>) =>
     /\ last.ret = "True"
     /\ LET l == load_from_content(St, last.written)
        IN  /\ l.ret
            /\ Len(l.st.elements) = Len(last.pre.elements)
            /\ l.st.selected_id = last.pre.selected_id
            /\ l.st.base_color = last.pre.base_color
            /\ l.st.contrast = last.pre.contrast

(***************************************************************************)
(* C6. save_to_file and load_from_file never let an exception reach the    *)
(* caller: a run in which something fails (the path cannot be opened, the  *)
(* text is not JSON, an element cannot be serialized or reconstructed)     *)
(* returns False, and every other run returns True.                        *)
(***************************************************************************)
SaveFails ==
  \/ ~Writable(last.path)
  \/ last.pre.elements # <<>>

LoadFails ==
  \/ FileContent(last.path).kind # "json"
  \/ "elements" \notin DOMAIN FileContent(last.path).data
  \/ FileContent(last.path).data.elements # <<>>

C7_SetSelected ==
  last.op = "set_selected" =>
    /\ selected_id = IF last.id \in Keys(last.pre.elements) THEN last.id ELSE None
    /\ elements = last.pre.elements
    /\ base_color = last.pre.base_color
    /\ contrast = last.pre.contrast

\* an id that is no key was given while another element was selected
C7_Witness ==
  /\ last.op = "set_selected"
  /\ last.id \in Ids \ Keys(last.pre.elements)
  /\ last.pre.selected_id \in Keys(last.pre.elements)
  /\ selected_id = None

(***************************************************************************)
(* C8. As claimed: delete_element_recursive(x) (returning) sets            *)
(* selected_id to None when x is the selected element or a descendant of   *)
(* the selected element, and leaves it when x is unrelated to it.          *)
(* (Fails: deleting a descendant of the selected element leaves the        *)
(* selected element in the store, and selected.)                           *)
(***************************************************************************)
XIsDescendantOfSelected ==
  /\ last.id \in Keys(last.pre.elements)
  /\ last.pre.selected_id \in Keys(last.pre.elements)
  /\ last.id # last.pre.selected_id
  /\ ParentChainReaches(last.pre.elements, Lookup(last.pre.elements, last.id),
                        last.pre.selected_id)

SelectedInSubtreeOfX ==
  last.pre.selected_id \in SubtreeIds(last.pre.elements, last.id)

C8_Original_DeleteClearsSelection ==
  (Deleting /\ last.ret = "None") =>
     /\ (last.pre.selected_id = last.id \/ XIsDescendantOfSelected)
          => selected_id = None
     /\ (~XIsDescendantOfSelected /\ ~SelectedInSubtreeOfX)
          => selected_id = last.pre.selected_id

(***************************************************************************)
(* C8, amended. delete_element_recursive(x), x on no parent cycle, sets    *)
(* selected_id to None when x is the selected id or an ancestor of the     *)
(* selected element (the selected element is in the subtree of x), and     *)
(* leaves selected_id untouched in every other case: when x is unrelated   *)
(* to the selected element and when x is a descendant of it.               *)
(***************************************************************************)
C8_DeleteClearsSelection ==
  (Deleting /\ ~OnParentCycle(last.pre.elements, last.id)) =>
     selected_id = IF SelectedInSubtreeOfX THEN None ELSE last.pre.selected_id

\* the parent of the selected element was deleted
C8_Witness ==
  /\ Deleting
  /\ last.pre.selected_id \in Keys(last.pre.elements)
  /\ last.pre.selected_id # last.id
  /\ Lookup(last.pre.elements, last.pre.selected_id).parent_id = last.id
  /\ last.id \in Keys(last.pre.elements)
  /\ selected_id = None

(***************************************************************************)
(* C9. As claimed: delete_element_recursive(x) with x no key of the store  *)
(* changes neither elements nor selected_id, also when elements have       *)
(* parent_id = x and when selected_id = x.                                 *)
(* (Fails: the elements with parent_id = x are deleted with their          *)
(* subtrees, and selected_id = x is set to None.)                          *)
(***************************************************************************)
C9_DeleteOfAbsentIdIsNoOp ==
  (Deleting /\ last.id \notin Keys(last.pre.elements)) =>
     /\ elements = last.pre.elements
     /\ selected_id = last.pre.selected_id

(***************************************************************************)
(* C10. add_element(e), and create_element through it, stores e under      *)
(* e.id and selects it; the entries with other ids are unchanged; a key    *)
(* that was present keeps one entry (the number of elements is the same),  *)
(* a new key adds exactly one.                                             *)
(***************************************************************************)
Added(e) ==
  /\ e.id \in Keys(elements)
  /\ Lookup(elements, e.id) = e
  /\ selected_id = e.id
  /\ Keys(elements) = Keys(last.pre.elements) \cup {e.id}
  /\ \A k \in Keys(last.pre.elements) \ {e.id} :
       Lookup(elements, k) = Lookup(last.pre.elements, k)
  /\ Len(elements) = Len(last.pre.elements)
                     + (IF e.id \in Keys(last.pre.elements) THEN 0 ELSE 1)
  /\ base_color = last.pre.base_color
  /\ contrast = last.pre.contrast

C10_AddElement ==
  /\ last.op = "add_element" => Added(last.e)
  /\ last.op = "create_element" =>
       /\ last.ret \notin Keys(last.pre.elements)
       /\ Added(MapElement_create(last.ret, last.t, last.name, last.parent_id, <<0, 0>>))
       /\ last.pre.elements = <<>> => Len(elements) = 1

\* an element was added under the key of another one, beside a third
C10_Witness ==
  /\ last.op = "add_element"
  /\ last.e.id \in Keys(last.pre.elements)
  /\ Lookup(last.pre.elements, last.e.id) # last.e
  /\ Len(last.pre.elements) = 2
  /\ last.pre.selected_id # last.e.id
  /\ Len(elements) = 2

(***************************************************************************)
(* C12. children_of(None) returns exactly the elements whose parent_id is  *)
(* None, children_of(p) exactly those whose parent_id is p, each once, for *)
(* p a key of the store or not; the call changes nothing.                  *)
(***************************************************************************)
ElementSet(els) == {els[i] : i \in DOMAIN els}

C12_ChildrenOf ==
  last.op = "children_of" =>
    /\ ElementSet(last.ret) =
         {e \in ElementSet(last.pre.elements) : e.parent_id = last.parent_id}
    /\ Len(last.ret) = Cardinality(ElementSet(last.ret))
    /\ St = last.pre

\* the roots were asked for in a store of a root and its child
C12_Witness ==
  /\ last.op = "children_of"
  /\ last.parent_id = None
  /\ Len(last.pre.elements) = 2
  /\ Len(last.ret) = 1
  /\ \E i \in DOMAIN last.pre.elements :
       last.pre.elements[i].parent_id = last.ret[1].id

(***************************************************************************)
(* C13. update_name, update_setting and update_parent change only the      *)
(* named field of the element with the given id (update_setting only the   *)
(* one settings key); every other field, every other element and the       *)
(* selection are unchanged; with an absent id they change nothing and do   *)
(* not raise.                                                              *)
(***************************************************************************)
\* b is a with field f set to v, and nothing else different
OnlyFieldChanged(a, b, f, v) ==
  /\ DOMAIN b = DOMAIN a
  /\ b[f] = v
  /\ \A g \in DOMAIN a \ {f} : b[g] = a[g]

Updating == last.op \in {"update_name", "update_setting", "update_parent"}

C13_UpdatesChangeOnlyTheNamedField ==
  Updating =>
    /\ last.ret = "None"
    /\ selected_id = last.pre.selected_id
    /\ base_color = last.pre.base_color
    /\ contrast = last.pre.contrast
    /\ Len(elements) = Len(last.pre.elements)
    /\ \A i \in DOMAIN last.pre.elements :
         LET a == last.pre.elements[i]
             b == elements[i]
         IN  IF a.id # last.id THEN b = a
             ELSE CASE last.op = "update_name" ->
                         OnlyFieldChanged(a, b, "name", last.name)
                    [] last.op = "update_parent" ->
                         OnlyFieldChanged(a, b, "parent_id", last.parent_id)
                    [] last.op = "update_setting" ->
                         /\ \A g \in DOMAIN a \ {"settings"} : b[g] = a[g]
                         /\ DOMAIN b = DOMAIN a
                         /\ DOMAIN b.settings = DOMAIN a.settings \cup {last.key}
                         /\ b.settings[last.key] = last.value
                         /\ \A k \in DOMAIN a.settings \ {last.key} :
                              b.settings[k] = a.settings[k]

\* a default setting of one of two elements was overwritten
C13_Witness ==
  /\ last.op = "update_setting"
  /\ last.key = "beizhu"
  /\ last.id \in Keys(last.pre.elements)
  /\ Len(last.pre.elements) = 2
  /\ Lookup(elements, last.id).settings["beizhu"] = "hello"
  /\ Lookup(last.pre.elements, last.id).settings["beizhu"] = ""

(***************************************************************************)
(* C14. After load_from_dict of a document with no background sub-record   *)
(* the background is the default gray #d9d9d9 with contrast 0.75, whatever *)
(* it was before the load.                                                 *)
(***************************************************************************)
LoadedFromDict == last.op = "load_from_dict" /\ last.ret = "None"

C14_LoadWithoutBackgroundGivesDefault ==
  (LoadedFromDict /\ "background" \notin DOMAIN last.data) =>
    /\ base_color = QColor(DefaultColorName)
    /\ contrast = DefaultContrast

(***************************************************************************)
(* C15. A successful load_from_dict replaces the whole mapping: the store  *)
(* holds exactly the elements of the document, none of the store before,   *)
(* and selected_id is the document's selected_id as it is, also when it    *)
(* names no loaded element.                                                *)
(***************************************************************************)
DocumentIds(data) == {data.elements[i].id : i \in DOMAIN data.elements}

C15_LoadReplacesMapping ==
  LoadedFromDict =>
    /\ Keys(elements) = DocumentIds(last.data)
    /\ Len(elements) = Len(last.data.elements)
    /\ selected_id = last.data.selected_id

\* a store of two elements loaded a document of none that selects an id
C15_Witness ==
  /\ LoadedFromDict
  /\ Len(last.pre.elements) = 2
  /\ elements = <<>>
  /\ selected_id \in Ids
  /\ last.pre.selected_id # selected_id

(***************************************************************************)
(* C18. delete_element_recursive(x) returns whenever no element downward   *)
(* from x is on a parent cycle, and it removes an element only after every *)
(* element whose parent_id is its id has been removed.                     *)
(***************************************************************************)
NoCycleBelow(els, x) ==
  \A y \in SubtreeIds(els, x) : ~OnParentCycle(els, y)

ChildrenRemovedFirst(els, deleted) ==
  \A i \in DOMAIN deleted :
    \A e \in ElementSet(els) :
      e.parent_id = deleted[i] => \E j \in 1..(i - 1) : deleted[j] = e.id

C18_DeleteTerminatesChildrenFirst ==
  (Deleting /\ NoCycleBelow(last.pre.elements, last.id)) =>
    /\ last.ret = "None"
    /\ ChildrenRemovedFirst(last.pre.elements, last.deleted)

\* an element with a child was deleted: the child went first
C18_Witness ==
  /\ Deleting
  /\ NoCycleBelow(last.pre.elements, last.id)
  /\ Len(last.deleted) = 2
  /\ last.deleted[2] = last.id
  /\ Lookup(last.pre.elements, last.deleted[1]).parent_id = last.id

(***************************************************************************)
(* C19. An element created with no name (None) is named                    *)
(* "<type label>-<first 4 characters of its id>", so its name begins with  *)
(* the label of its type; a non-empty name that is supplied is used as it  *)
(* is.                                                                     *)
(***************************************************************************)
Creating == last.op = "create_element"

Created == Lookup(elements, last.ret)

StartsWith(s, p) == Len(s) >= Len(p) /\ SubSeq(s, 1, Len(p)) = p

C19_DefaultName ==
  Creating =>
    LET label == ElementType[last.t]
        n == Len(label)
    IN  /\ last.name = None =>
             /\ StartsWith(Created.name, label)
             /\ Len(Created.name) = n + 5
             /\ SubSeq(Created.name, n + 1, n + 1) = "-"
             /\ SubSeq(Created.name, n + 2, n + 5) = SubSeq(last.ret, 1, 4)
        /\ last.name \notin {None, ""} => Created.name = last.name

\* an element was created without a name in a store that had an element
C19_Witness ==
  /\ Creating
  /\ last.name = None
  /\ last.pre.elements # <<>>
  /\ Len(last.ret) > 4
  /\ StartsWith(Created.name, ElementType[last.t])

(***************************************************************************)
(* C20. The settings of a new element follow its type: every type has      *)
(* description, affiliation, population/scale, resources and notes; river  *)
(* and mountain types also have intensity ("zhong", medium) and an empty   *)
(* special effect; mine types also have an ore type equal to the label of  *)
(* the type and an empty yield; the custom type also has custom subtype,   *)
(* icon size and display-name toggle; no type has the further keys of      *)
(* another category.                                                       *)
(***************************************************************************)
CommonKeys == {"miaoshu", "zhenying_guishu", "renkou_guimo", "ziyuan", "beizhu"}
LinearKeys == {"qiangdu_guimo", "teshu_xiaoguo"}
MineKeys == {"kuangzhong", "chanchu"}
CustomKeys == {"zidingyi_leixing", "tubiao_daxiao", "xianshi_mingcheng"}

\* the categories, read off the member names
IsLinear(t) == StartsWith(t, "RIVER_") \/ StartsWith(t, "MOUNTAIN_")
IsMine(t) == StartsWith(t, "MINE_")
IsCustom(t) == t = "CUSTOM"

C20_DefaultSettings ==
  Creating =>
    LET s == Created.settings
        t == last.t
    IN  /\ CommonKeys \subseteq DOMAIN s
        /\ IF IsLinear(t)
           THEN /\ LinearKeys \subseteq DOMAIN s
                /\ s["qiangdu_guimo"] = "zhong"
                /\ s["teshu_xiaoguo"] = ""
           ELSE LinearKeys \cap DOMAIN s = {}
        /\ IF IsMine(t)
           THEN /\ MineKeys \subseteq DOMAIN s
                /\ s["kuangzhong"] = ElementType[t]
                /\ s["chanchu"] = ""
           ELSE MineKeys \cap DOMAIN s = {}
        /\ IF IsCustom(t)
           THEN CustomKeys \subseteq DOMAIN s
           ELSE CustomKeys \cap DOMAIN s = {}

\* a gold mine was created
C20_Witness ==
  /\ Creating
  /\ last.t = "MINE_GOLD"
  /\ Created.settings["kuangzhong"] = "jinkuang"
  /\ DOMAIN Created.settings \cap (LinearKeys \cup CustomKeys) = {}

(***************************************************************************)
(* C16. In the tree _rebuild_tree builds, an element whose parent_id       *)
(* points to no element of the store is a top level item, so that every    *)
(* element of the store is in the tree exactly once whenever the parent    *)
(* relation has no cycle.                                                  *)
(***************************************************************************)
TreeBuilt == last.op = "_rebuild_tree"

Acyclic(els) == \A x \in Keys(els) : ~OnParentCycle(els, x)

Dangling(els, e) == e.parent_id # None /\ e.parent_id \notin Keys(els)

TimesInTree(tree, id) == Cardinality({i \in DOMAIN tree : tree[i].id = id})

C16_DanglingParentShownAsRoot ==
  TreeBuilt =>
    /\ \A e \in ElementSet(elements) :
         Dangling(elements, e) =>
           \E i \in DOMAIN window.tree :
             window.tree[i].id = e.id /\ window.tree[i].parent = None
    /\ Acyclic(elements) =>
         \A id \in Keys(elements) : TimesInTree(window.tree, id) = 1

(***************************************************************************)
(* C17. In every state the handlers of the window lead to, the parent      *)
(* relation is a forest: every parent_id is None or the id of an element   *)
(* of the store, and no element is its own ancestor.                       *)
(***************************************************************************)
C17_ParentRelationIsForest ==
  /\ \A e \in ElementSet(elements) :
       e.parent_id = None \/ e.parent_id \in Keys(elements)
  /\ Acyclic(elements)

\* an element stands under the country it was placed in, after the window has
\* deleted an element
C17_Witness ==
  /\ Len(elements) = 2
  /\ \E e \in ElementSet(elements) :
       /\ e.parent_id \in Keys(elements)
       /\ Lookup(elements, e.parent_id).type = "COUNTRY_SMALL"
  /\ Cardinality(used) = 3
  /\ ~window.is_placing

(***************************************************************************)
(* C21. In every state the editor's operations lead to (contrast slider,   *)
(* color picker, new file, clear, load of a document) the contrast of the  *)
(* background is within [0, 1].                                            *)
(* (Fails: load_from_dict stores the contrast of the document as it is.)   *)
(***************************************************************************)
C21_ContrastInUnitInterval == contrast \in 0..100

(***************************************************************************)
(* C23. clear() puts the store in the initial empty state from any state:  *)
(* no elements, selected_id None, base color #d9d9d9, contrast 0.75.       *)
(***************************************************************************)
Clearing == last.op = "clear"

C23_ClearGivesInitialState ==
  Clearing =>
    /\ elements = <<>>
    /\ selected_id = None
    /\ QColor_name(base_color) = DefaultColorName
    /\ base_color.a = 255
    /\ contrast = DefaultContrast

\* a store with elements, a selection and another background was cleared
C23_Witness ==
  /\ Clearing
  /\ Len(last.pre.elements) = 2
  /\ last.pre.selected_id \in Keys(last.pre.elements)
  /\ QColor_name(last.pre.base_color) = ColorNameInput
  /\ last.pre.contrast # DefaultContrast
  /\ elements = <<>>

(***************************************************************************)
(* C24. After delete_element_recursive(x) has returned, selected_id is     *)
(* None if the selected id was x or an element whose parent chain reaches  *)
(* x, and is what it was in every other case, also when the selected       *)
(* element is an ancestor of x.                                            *)
(***************************************************************************)
Deleted == Deleting /\ last.ret = "None"

SelectedWasAncestorOfX ==
  /\ last.id \in Keys(last.pre.elements)
  /\ last.pre.selected_id # last.id
  /\ ParentChainReaches(last.pre.elements, Lookup(last.pre.elements, last.id),
                        last.pre.selected_id)

C24_SelectionAfterDelete ==
  Deleted =>
    /\ (\/ last.pre.selected_id = last.id
        \/ \E e \in ElementSet(last.pre.elements) :
             /\ e.id = last.pre.selected_id
             /\ ParentChainReaches(last.pre.elements, e, last.id))
         => selected_id = None
    /\ (/\ last.pre.selected_id # last.id
        /\ \A e \in ElementSet(last.pre.elements) :
             e.id = last.pre.selected_id =>
               ~ParentChainReaches(last.pre.elements, e, last.id))
         => selected_id = last.pre.selected_id
    /\ SelectedWasAncestorOfX => selected_id = last.pre.selected_id

\* a child of the selected element was deleted and the selection stayed
C24_Witness ==
  /\ Deleted
  /\ SelectedWasAncestorOfX
  /\ last.pre.selected_id \in Keys(elements)
  /\ selected_id = last.pre.selected_id
  /\ last.deleted = <<last.id>>

(***************************************************************************)
(* C25. As claimed: a store with a parent cycle is reachable through the   *)
(* public operations, and delete_element_recursive on an element of the    *)
(* cycle does not terminate and removes nothing.                           *)
(* (Fails: an element below the cycle that comes before the cycle's        *)
(* elements in the store is removed before the recursion goes round.)      *)
(***************************************************************************)
DeletingOnCycle == Deleting /\ OnParentCycle(last.pre.elements, last.id)

C25_Original_DeleteOnCycleRemovesNothing ==
  DeletingOnCycle =>
    /\ last.ret = "raised"
    /\ elements = last.pre.elements

(***************************************************************************)
(* C25, amended. A store with a parent cycle is reachable through the      *)
(* public operations (update_parent validates nothing), and                *)
(* delete_element_recursive on an element of the cycle does not return:    *)
(* the recursion is unbounded (RecursionError). Every element on a parent  *)
(* cycle stays in the store; what is removed before the error, if          *)
(* anything, are elements below x that are on no cycle, and the elements   *)
(* that stay are unmodified.                                               *)
(***************************************************************************)
C25_DeleteOnCycleDoesNotReturn ==
  DeletingOnCycle =>
    /\ last.ret = "raised"
    /\ \A y \in Keys(last.pre.elements) :
         OnParentCycle(last.pre.elements, y) => y \in Keys(elements)
    /\ Keys(last.pre.elements) \ Keys(elements)
         \subseteq SubtreeIds(last.pre.elements, last.id)
    /\ \A y \in Keys(elements) :
         Lookup(elements, y) = Lookup(last.pre.elements, y)

\* update_parent(a, b) with b a child of a closed a cycle of two elements;
\* delete_element_recursive(a) ended in the error with both in the store
C25_Witness ==
  /\ DeletingOnCycle
  /\ last.ret = "raised"
  /\ Len(elements) = 2
  /\ \A e \in ElementSet(elements) : e.parent_id \in Keys(elements) \ {e.id}

(***************************************************************************)
(* C26. Under add_element, create_element, delete_element_recursive (on    *)
(* stores without parent cycles), set_selected, update_name,               *)
(* update_setting, update_parent, set_background and clear, with no load,  *)
(* selected_id is None or a key of elements in every reachable state.      *)
(***************************************************************************)
\* the store's operations but the loads
NextNoLoad ==
  \E obs \in BOOLEAN :
    \/ \E e \in ElementInputs : AddElement(e, obs)
    \/ \E eid \in Ids, t \in TypesUsed, p \in ParentInputs :
         /\ obs
         /\ CreateElement(eid, t, p, None, obs)
    \/ \E eid \in Ids : CreateElement(eid, "VILLAGE_SMALL", None, NameInput, obs)
    \/ \E x \in Ids :
         /\ Acyclic(elements)
         /\ DeleteElementRecursive(x, obs)
    \/ \E id \in Ids \cup {None} : SetSelected(id, obs)
    \/ \E id \in Ids : UpdateName(id, "n2")
    \/ \E id \in Ids, key \in SettingKeyInputs : UpdateSetting(id, key, "hello")
    \/ \E id \in Ids, p \in ParentInputs : UpdateParent(id, p, obs)
    \/ \E con \in ContrastInputs : SetBackground(QColor(ColorNameInput), con, obs)
    \/ Clear(obs)

SpecNoLoad == Init /\ [][NextNoLoad]_vars

C26_SelectionValidWithoutLoad ==
  selected_id # None => \E i \in DOMAIN elements : elements[i].id = selected_id

\* the selected element stayed selected when the other element was deleted
C26_Witness ==
  /\ Deleted
  /\ Len(last.pre.elements) = 2
  /\ Len(elements) = 1
  /\ selected_id = elements[1].id
  /\ last.pre.selected_id = selected_id

(***************************************************************************)
(* C28. After every completed operation of the main window (placement,     *)
(* add custom element, delete selected, new file, open file whether it     *)
(* succeeds or fails, background change) the ids that have a canvas item   *)
(* (_element_items) are the ids of the store.                              *)
(* (Fails: a load that fails after elements.clear() leaves the store       *)
(* empty, and open_file redraws nothing when the load fails.)              *)
(***************************************************************************)
CanvasItemIds == {window.element_items[i] : i \in DOMAIN window.element_items}

C28_CanvasItemsAreStoreIds == CanvasItemIds = Keys(elements)

(***************************************************************************)
(* C22. In every state the handlers of the window lead to, an element has  *)
(* a polyline that is not empty only if its type is a river or mountain    *)
(* type: every point element (house, village, town, city, country, mine,   *)
(* custom) has an empty polyline.                                          *)
(***************************************************************************)
\* what a placement of type t would store, from a window with no element
PlacedAlone(t) ==
  Lookup(place_element(St, "e1a0f3", t, ClickX, ClickY).elements, "e1a0f3")

C22_PolylineOnlyOnLinearElements ==
  /\ \A e \in ElementSet(elements) : e.polyline # <<>> => IsLinear(e.type)
  /\ elements = <<>> =>
       \A t \in DOMAIN ElementType :
         ~IsLinear(t) => PlacedAlone(t).polyline = <<>>

\* a river with its polyline stands beside a point element with none
C22_Witness ==
  /\ \E e \in ElementSet(elements) :
       /\ e.type = "RIVER_SMALL"
       /\ Len(e.polyline) = 4
       /\ e.polyline[1] = <<ClickX - 60, ClickY - 10>>
  /\ \E e \in ElementSet(elements) :
       /\ ~IsLinear(e.type)
       /\ e.polyline = <<>>

(***************************************************************************)
(* C29. Placement mode has two states: _is_placing is true exactly when    *)
(* _selected_element_type is set. A click on the canvas in placement mode  *)
(* creates exactly one element, of the prepared type, at the position of   *)
(* the click, and selects it; a click outside placement mode creates       *)
(* nothing. After a placement and after a cancel the window is out of      *)
(* placement mode, so that a second click with no new choice of type       *)
(* places nothing.                                                         *)
(***************************************************************************)
InPlacementMode == window.is_placing

CanvasClick == \E eid \in Ids : OnViewMousePress(eid, ClickX, ClickY)

\* the step added one element, the last of the store, as the click asks
PlacedOne ==
  /\ Len(elements') = Len(elements) + 1
  /\ SubSeq(elements', 1, Len(elements)) = elements
  /\ LET e == elements'[Len(elements')]
     IN  /\ e.type = window.selected_element_type
         /\ e.pos = <<ClickX, ClickY>>
         /\ e.id \notin Keys(elements)
         /\ selected_id' = e.id
  /\ ~window'.is_placing
  /\ window'.selected_element_type = None

C29_PlacementMode ==
  /\ [](InPlacementMode <=> window.selected_element_type # None)
  /\ [][CanvasClick => IF InPlacementMode THEN PlacedOne
                                          ELSE elements' = elements]_vars
  /\ [][CancelPlacement => ~window'.is_placing]_vars

\* a second element was placed by a click and the window left placement mode
C29_Witness ==
  /\ Len(elements) = 2
  /\ ~InPlacementMode
  /\ window.selected_element_type = None
  /\ elements[2].pos = <<ClickX, ClickY>>
  /\ elements[2].type \in TypesPlaced
  /\ selected_id = elements[2].id

(***************************************************************************)
(* C30. An element placed on the canvas gets the id of the selected        *)
(* element as parent_id exactly when the selected element exists, is of a  *)
(* country, city or town type, and the type of the new element is not of   *)
(* that same category; in every other case (nothing selected, a selection  *)
(* of another category, the same category) the new element is a root.      *)
(***************************************************************************)
Category(t) ==
  CASE StartsWith(t, "COUNTRY_") -> "country"
    [] StartsWith(t, "CITY_")    -> "city"
    [] StartsWith(t, "TOWN_")    -> "town"
    [] OTHER                     -> "other"

\* the selected element takes a new element of type t as its child
TakesAsChild(t) ==
  /\ selected_id \in Keys(elements)
  /\ Category(Lookup(elements, selected_id).type) # "other"
  /\ Category(Lookup(elements, selected_id).type) # Category(t)

C30_PlacementParent ==
  [][(CanvasClick /\ InPlacementMode) =>
       elements'[Len(elements')].parent_id =
         IF TakesAsChild(window.selected_element_type) THEN selected_id ELSE None]_vars

\* a country was placed under the selected town
C30_Witness ==
  /\ Len(elements) = 2
  /\ elements[1].type = "TOWN_SMALL"
  /\ elements[2].type = "COUNTRY_SMALL"
  /\ elements[2].parent_id = elements[1].id
  /\ elements[2].pos = <<ClickX, ClickY>>
  /\ selected_id = elements[2].id

(***************************************************************************)
(* C27. Each key of the element mapping is the id of the element stored    *)
(* under it.  The mapping is held as the sequence of its values, the key   *)
(* of an entry being the id of its element, so the property reads: no two  *)
(* entries hold the same id, and after any call every entry holds an id    *)
(* that was a key before the call, in the place that key had, or is the    *)
(* entry of the element the call added, under that element's id.           *)
(***************************************************************************)
IdsOf(els) == [i \in DOMAIN els |-> els[i].id]

\* the ids of kept are those of before, in order, some of them left out
RECURSIVE IsSubSeq(_, _)
IsSubSeq(kept, before) ==
  IF kept = <<>> THEN TRUE
  ELSE IF before = <<>> THEN FALSE
  ELSE IF Head(kept) = Head(before) THEN IsSubSeq(Tail(kept), Tail(before))
  ELSE IsSubSeq(kept, Tail(before))

====
